---- MODULE Spec2Model ----
(***************************************************************************)
(* PDF text extraction and question generation.                            *)
(*                                                                         *)
(* A string is a sequence of characters, a character a one-character       *)
(* string.  PipeSpec steps the chain of cleanAndGenerateQuestions over     *)
(* bounded input texts.  Spec is the application: file selections decoded  *)
(* page by page, App and QuestionBox rendering the result, and the upload  *)
(* endpoint of the server.                                                 *)
(***************************************************************************)
EXTENDS Integers, Sequences, FiniteSets, TLC

VARIABLES
    text,                \* argument of cleanAndGenerateQuestions
    stage,               \* position inside cleanAndGenerateQuestions
    cleanedText,         \* const cleanedText
    splitResult,         \* value of cleanedText.split(...)
    sentences,           \* const sentences (after .filter)
    generatedQuestions,  \* const generatedQuestions
    pageTexts,           \* the pageText of each page a run of the extractor reads
    uploads,             \* the runs of PDFUploader.handleFileChange
    pdfText,             \* App's state pdfText
    questions,           \* QuestionBox's state questions
    effectPending,       \* QuestionBox's effect is scheduled and has not run
    alerts,              \* number of alert() dialogs shown
    lastCaller,          \* the upload that called onUpload last (0: none yet)
    requests             \* the runs of the POST /upload handler

pipeVars ==
    <<text, stage, cleanedText, splitResult, sentences, generatedQuestions, pageTexts>>

appVars == <<uploads, pdfText, questions, effectPending, alerts, lastCaller, requests>>

vars == <<text, stage, cleanedText, splitResult, sentences, generatedQuestions,
          pageTexts, uploads, pdfText, questions, effectPending, alerts, lastCaller, requests>>

----------------------------------------------------------------------------
(* Bounds of the checked inputs *)

MaxLen == 4          \* longest text enumerated character by character
MaxBlocks == 6       \* most sentence blocks in a composed text
MaxUploads == 2      \* most file selections and POST requests in a behaviour
MaxPages == 3        \* most pages in an enumerated sequence of page texts

----------------------------------------------------------------------------
(* Characters *)

Lower == {"a", "b", "c", "d", "e", "f", "g", "h", "i", "j", "k", "l", "m",
          "n", "o", "p", "q", "r", "s", "t", "u", "v", "w", "x", "y", "z"}

Upper == {"A", "B", "C", "D", "E", "F", "G", "H", "I", "J", "K", "L", "M",
          "N", "O", "P", "Q", "R", "S", "T", "U", "V", "W", "X", "Y", "Z"}

DigitChars == <<"0", "1", "2", "3", "4", "5", "6", "7", "8", "9">>

Digits == {DigitChars[i] : i \in 1..10}

\* The characters the class [^a-zA-Z0-9.,!? \n] does not match.
Allowed == Lower \cup Upper \cup Digits \cup {".", ",", "!", "?", " ", "\n"}

\* The characters \s matches (and trim() strips) among those modelled.
WhiteSpace == {" ", "\n", "\t", "\r", "\f"}

\* The characters \n matches.
NewLine == {"\n"}

----------------------------------------------------------------------------
(* String helpers *)

Min(a, b) == IF a < b THEN a ELSE b

Rep(n, c) == [i \in 1..n |-> c]

RECURSIVE Concat(_)
Concat(ss) == IF ss = <<>> THEN <<>> ELSE Head(ss) \o Concat(Tail(ss))

\* s.replace(/[^...]/g, " ") : every character outside the class becomes a space.
ReplaceOutside(s, class) ==
    [i \in 1..Len(s) |-> IF s[i] \in class THEN s[i] ELSE " "]

\* s.replace(/C+/g, " ") : every maximal run of characters of C becomes one
\* space, that is, a character of C is kept (as a space) only where it starts
\* a run.
CollapseRuns(s, class) ==
    LET StartsRunOrOther(i) == s[i] \notin class \/ i = 1 \/ s[i - 1] \notin class
        kept == SelectSeq([i \in 1..Len(s) |-> i], StartsRunOrOther)
    IN  [k \in 1..Len(kept) |-> IF s[kept[k]] \in class THEN " " ELSE s[kept[k]]]

\* String.prototype.trim
Trim(s) ==
    LET NotSpace(i) == s[i] \notin WhiteSpace
        keep == SelectSeq([i \in 1..Len(s) |-> i], NotSpace)
    IN  IF keep = <<>> THEN <<>> ELSE SubSeq(s, Head(keep), keep[Len(keep)])

\* Number::toString for the naturals, as the template literal applies it.
RECURSIVE NumberToString(_)
NumberToString(n) ==
    IF n < 10 THEN <<DigitChars[n + 1]>>
    ELSE NumberToString(n \div 10) \o <<DigitChars[(n % 10) + 1]>>

----------------------------------------------------------------------------
(* cleanAndGenerateQuestions, stage by stage *)

Threshold == 30

SliceEnd == 5

\* text.replace(/[^a-zA-Z0-9.,!? \n]/g, " ")
ReplaceDisallowed(s) == ReplaceOutside(s, Allowed)

\* .replace(/\s+/g, " ")
CollapseSpacesOnly(s) == CollapseRuns(s, {" "})

CollapseTabsAndSpaces(s) == CollapseRuns(s, WhiteSpace \ NewLine)

CollapseWhitespace(s) == CollapseRuns(s, WhiteSpace)

\* .replace(/\n+/g, " ")
CollapseNewlines(s) == CollapseRuns(s, NewLine)

\* The whole chain of replace calls and the trim.
CleanNoTrim(s) == CollapseNewlines(CollapseWhitespace(ReplaceDisallowed(s)))

Clean(s) == Trim(CollapseNewlines(CollapseWhitespace(ReplaceDisallowed(s))))

\* /\. |\? |! / matches at position q (1-based) of s.
DelimiterAtDotOnly(s, q) == q + 1 <= Len(s) /\ s[q] = "." /\ s[q + 1] = " "

DelimiterAtNoBang(s, q) ==
    q + 1 <= Len(s) /\ s[q] \in {".", "?"} /\ s[q + 1] = " "

DelimiterAt(s, q) ==
    q + 1 <= Len(s) /\ s[q] \in {".", "?", "!"} /\ s[q + 1] = " "

\* String.prototype.split with that separator: p is the start of the piece
\* being collected; the scan stops at the first match at or after p, the
\* piece ends before it and the next piece starts after it.
RECURSIVE SplitFrom(_, _)
SplitFrom(s, p) ==
    LET matches == {q \in p..Len(s) : DelimiterAt(s, q)}
        q == CHOOSE m \in matches : \A n \in matches : m <= n
    IN  IF matches = {} THEN <<SubSeq(s, p, Len(s))>>
        ELSE <<SubSeq(s, p, q - 1)>> \o SplitFrom(s, q + 2)

SplitEmptyToNone(s) == IF s = <<>> THEN <<>> ELSE SplitFrom(s, 1)

\* The empty string gives one empty piece, since the separator does not
\* match the empty string.
Split(s) == IF s = <<>> THEN << <<>> >> ELSE SplitFrom(s, 1)

\* .filter(s => s.length > 30)
LongEnoughOrEqual(s) == Len(s) >= Threshold

LongEnough(s) == Len(s) > Threshold

FilterDedup(ss) ==
    LET long == SelectSeq(ss, LongEnough)
        IsFirst(i) == \A j \in 1..(i - 1) : long[j] # long[i]
        firsts == SelectSeq([i \in 1..Len(long) |-> i], IsFirst)
    IN  [k \in 1..Len(firsts) |-> long[firsts[k]]]

Filter(ss) == SelectSeq(ss, LongEnough)

\* .slice(0, 5)
SliceAll(ss) == ss

Slice(ss) == SubSeq(ss, 1, Min(SliceEnd, Len(ss)))

\* `Q${idx + 1}: What does this mean? -> "${sentence.trim()}?"`
TemplateMiddle == <<
    ":", " ", "W", "h", "a", "t", " ", "d", "o", "e", "s", " ", "t", "h",
    "i", "s", " ", "m", "e", "a", "n", "?", " ", "→", " ", "\"" >>

QuestionUntrimmed(sentence, idx) ==
    <<"Q">> \o NumberToString(idx + 1) \o TemplateMiddle
            \o sentence \o <<"?", "\"">>

Question(sentence, idx) ==
    <<"Q">> \o NumberToString(idx + 1) \o TemplateMiddle
            \o Trim(sentence) \o <<"?", "\"">>

\* .map((sentence, idx) => ...) : idx is 0-based.
MapQuestions(ss) == [k \in 1..Len(ss) |-> Question(ss[k], k - 1)]

cleanAndGenerateQuestions(t) == MapQuestions(Slice(Filter(Split(Clean(t)))))

----------------------------------------------------------------------------
(* Input texts *)

Alphabet == {"a", ",", ".", "?", "!", " ", "\n", "#"}

RECURSIVE TextsOfLen(_)
TextsOfLen(n) ==
    IF n = 0 THEN {<<>>}
    ELSE {Append(s, c) : s \in TextsOfLen(n - 1), c \in Alphabet}

ShortTexts == UNION {TextsOfLen(n) : n \in 0..MaxLen}

\* Sentence blocks around the filter's threshold.
Blocks == {
    Rep(Threshold + 1, "a") \o <<".", " ">>,
    Rep(Threshold, "b") \o <<"?", " ">>,
    Rep(Threshold, "c") \o <<" ", "!", "\n">> }

RECURSIVE BlockSeqs(_)
BlockSeqs(n) ==
    IF n = 0 THEN {<<>>}
    ELSE {Append(bs, b) : bs \in BlockSeqs(n - 1), b \in Blocks}

LongTexts == {Concat(bs) : bs \in UNION {BlockSeqs(n) : n \in 1..MaxBlocks}}

Mitochondria == <<
    "T", "h", "e", " ", "m", "i", "t", "o", "c", "h", "o", "n", "d", "r",
    "i", "a", " ", "i", "s", " ", "t", "h", "e", " ", "p", "o", "w", "e",
    "r", "h", "o", "u", "s", "e", " ", "o", "f", " ", "t", "h", "e", " ",
    "c", "e", "l", "l", ".", " ", "I", "t", " ", "p", "e", "r", "f", "o",
    "r", "m", "s", " ", "c", "e", "l", "l", "u", "l", "a", "r", " ", "r",
    "e", "s", "p", "i", "r", "a", "t", "i", "o", "n", " ", "c", "o", "n",
    "s", "t", "a", "n", "t", "l", "y", "." >>

Texts == ShortTexts \cup LongTexts \cup {Mitochondria}

----------------------------------------------------------------------------
(* The application: file picker, App, QuestionBox and the upload endpoint *)

\* A document as pdf.js decodes it: whether getDocument resolves, and for each
\* page whether getPage resolves and what getTextContent gives, the strings
\* of its items or a rejection.
SentenceA == Rep(Threshold + 1, "a") \o <<".">>

SentenceB == Rep(Threshold + 1, "b") \o <<"?">>

Short == <<"H", "i", ".">>

GoodPage(strs) == [loads |-> TRUE, content |-> TRUE, items |-> strs]

DocOf == [
    bad   |-> [opens |-> FALSE, pages |-> <<>>],
    zero  |-> [opens |-> TRUE, pages |-> <<>>],
    blank |-> [opens |-> TRUE, pages |-> <<GoodPage(<<>>)>>],
    one   |-> [opens |-> TRUE, pages |-> <<GoodPage(<<SentenceA, SentenceB>>)>>],
    two   |-> [opens |-> TRUE,
               pages |-> <<GoodPage(<<Short>>), GoodPage(<<SentenceB, Short>>)>>],
    torn  |-> [opens |-> TRUE,
               pages |-> <<GoodPage(<<SentenceA>>),
                           [loads |-> FALSE, content |-> FALSE, items |-> <<>>]>>],
    dim   |-> [opens |-> TRUE,
               pages |-> <<[loads |-> TRUE, content |-> FALSE, items |-> <<>>]>>] ]

DocNames == DOMAIN DocOf

\* e.target.files[0] or req.file: absent, or a file with its media type and
\* its bytes (named by the document they decode to).
NoFile == [type |-> "", doc |-> "bad"]

Files == {[type |-> "application/pdf", doc |-> d] : d \in DocNames}
             \cup {[type |-> "text/plain", doc |-> d] : d \in {"bad", "one"}}

NoUpload == [file |-> NoFile, pc |-> "idle", i |-> 0, text |-> <<>>, calls |-> <<>>]

NoRequest ==
    [file |-> NoFile, pc |-> "idle", sent |-> 0, status |-> 0, body |-> [none |-> TRUE]]

AppInit ==
    /\ uploads = [u \in 1..MaxUploads |-> NoUpload]
    /\ pdfText = <<>>
    /\ questions = <<>>
    /\ effectPending = FALSE
    /\ alerts = 0
    /\ lastCaller = 0
    /\ requests = [r \in 1..MaxUploads |-> NoRequest]

\* content.items.map(item => item.str).join(" ")
RECURSIVE Join(_, _)
Join(strs, separator) ==
    IF strs = <<>> THEN <<>>
    ELSE IF Len(strs) = 1 THEN strs[1]
    ELSE strs[1] \o separator \o Join(Tail(strs), separator)

PageTextBare(items) == Join(items, <<" ">>)

PageTextNoSeparator(items) == Join(items, <<>>) \o <<"\n">>

\* pageText + "\n"
PageText(items) == Join(items, <<" ">>) \o <<"\n">>

FirstPageZero == 1 - 1

\* let i = 1
FirstPage == 1

\* pdf.getPage(i) resolves: pdf.js rejects a page number outside 1..numPages.
GetPageOk(doc, i) == i \in 1..Len(doc.pages) /\ doc.pages[i].loads

\* page.getTextContent() resolves.
GetTextContentOk(doc, i) == doc.pages[i].content

LoopContinuesStrict(i, numPages) == i < numPages

\* i <= pdf.numPages
LoopContinues(i, numPages) == i <= numPages

\* pdfParse(buffer) resolves only when the whole document decodes.
PdfParseOk(doc) ==
    doc.opens /\ \A i \in 1..Len(doc.pages) : doc.pages[i].loads /\ doc.pages[i].content

\* data.text as the pdf-parse library lays it out: each page's text after
\* two newlines.
PdfParseText(doc) ==
    Concat([i \in 1..Len(doc.pages) |-> <<"\n", "\n">> \o Join(doc.pages[i].items, <<>>)])

\* {pdfText && <QuestionBox text={pdfText} />}: the empty string is falsy.
Mounted == pdfText # <<>>

NoContentMessage == <<
    "N", "o", " ", "v", "a", "l", "i", "d", " ", "c", "o", "n", "t", "e",
    "n", "t", " ", "f", "o", "u", "n", "d", " ", "t", "o", " ", "g", "e",
    "n", "e", "r", "a", "t", "e", " ", "q", "u", "e", "s", "t", "i", "o",
    "n", "s", "." >>

\* The components App renders: PDFUploader always, QuestionBox for a truthy
\* pdfText.
AppChildren ==
    IF Mounted THEN <<"PDFUploader", "QuestionBox">> ELSE <<"PDFUploader">>

\* What PDFReader renders, its text prop in a <pre>, where App renders it.
PDFReaderView ==
    IF \E k \in 1..Len(AppChildren) : AppChildren[k] = "PDFReader"
    THEN [rendered |-> TRUE, pre |-> pdfText]
    ELSE [rendered |-> FALSE, pre |-> <<>>]

\* What QuestionBox renders: the paragraph or the list items, and nothing
\* when App does not render it.
QuestionBoxView ==
    IF ~Mounted THEN [rendered |-> FALSE, p |-> <<>>, li |-> <<>>]
    ELSE IF Len(questions) = 0
         THEN [rendered |-> TRUE, p |-> NoContentMessage, li |-> <<>>]
         ELSE [rendered |-> TRUE, p |-> <<>>, li |-> questions]

\* setPdfText(t) and the render it causes.  An equal string is no state
\* change.  An empty string unmounts QuestionBox, whose state is lost; a
\* first non-empty one mounts it with questions = [] and schedules its
\* effect; a changed one re-renders it, after any effect still pending from
\* the previous render has run, and schedules the effect again.
SetPdfText(t) ==
    /\ pdfText' = t
    /\ IF t = pdfText THEN UNCHANGED <<questions, effectPending>>
       ELSE IF t = <<>> THEN questions' = <<>> /\ effectPending' = FALSE
       ELSE IF pdfText = <<>> THEN questions' = <<>> /\ effectPending' = TRUE
       ELSE /\ questions' = IF effectPending
                            THEN cleanAndGenerateQuestions(pdfText)
                            ELSE questions
            /\ effectPending' = TRUE

\* The number of file selections and requests handled so far.
Started ==
    Cardinality({u \in 1..MaxUploads : uploads[u].pc # "idle"})
        + Cardinality({r \in 1..MaxUploads : requests[r].pc # "idle"})

\* handleFileChange: a PDF file is handed to a FileReader, anything else is
\* answered with an alert.
HandleFileChange(u, f) ==
    /\ Started < MaxUploads
    /\ uploads[u].pc = "idle"
    /\ \A v \in 1..(u - 1) : uploads[v].pc # "idle"
    /\ IF f # NoFile /\ f.type = "application/pdf"
       THEN /\ uploads' = [uploads EXCEPT ![u] = [@ EXCEPT !.file = f, !.pc = "reading"]]
            /\ UNCHANGED alerts
       ELSE /\ uploads' = [uploads EXCEPT ![u] = [@ EXCEPT !.file = f, !.pc = "alerted"]]
            /\ alerts' = alerts + 1
    /\ UNCHANGED <<pdfText, questions, effectPending, lastCaller, requests>>
    /\ UNCHANGED pipeVars

\* reader.onload up to its first await: getDocument(typedArray).promise
ReaderOnload(u) ==
    /\ uploads[u].pc = "reading"
    /\ uploads' = [uploads EXCEPT ![u] = [@ EXCEPT !.pc = "getDocument"]]
    /\ UNCHANGED <<pdfText, questions, effectPending, alerts, lastCaller, requests>>
    /\ UNCHANGED pipeVars

RejectDeliveringText(u) ==
    /\ uploads' = [uploads EXCEPT ![u] =
           [@ EXCEPT !.pc = "rejected", !.calls = Append(@, uploads[u].text)]]
    /\ SetPdfText(uploads[u].text)
    /\ lastCaller' = u

RejectClearingText(u) ==
    /\ uploads' = [uploads EXCEPT ![u] = [@ EXCEPT !.pc = "rejected"]]
    /\ SetPdfText(<<>>)
    /\ UNCHANGED lastCaller

\* An awaited promise rejects inside reader.onload: nothing catches it, the
\* async function ends there.
Reject(u) ==
    /\ uploads' = [uploads EXCEPT ![u] = [@ EXCEPT !.pc = "rejected"]]
    /\ UNCHANGED <<pdfText, questions, effectPending, lastCaller>>

LoopOrDeliverEarly(u, t, i) ==
    /\ uploads' = [uploads EXCEPT ![u] =
           [@ EXCEPT !.pc = IF LoopContinues(i, Len(DocOf[uploads[u].file.doc].pages))
                            THEN "page" ELSE "done",
                     !.i = i, !.text = t, !.calls = Append(@, t)]]
    /\ SetPdfText(t)
    /\ lastCaller' = u

LoopOrDeliverLatestWins(u, t, i) ==
    IF LoopContinues(i, Len(DocOf[uploads[u].file.doc].pages))
    THEN /\ uploads' = [uploads EXCEPT ![u] =
                [@ EXCEPT !.pc = "page", !.i = i, !.text = t]]
         /\ UNCHANGED <<pdfText, questions, effectPending, lastCaller>>
    ELSE /\ uploads' = [uploads EXCEPT ![u] =
                [@ EXCEPT !.pc = "done", !.i = i, !.text = t, !.calls = Append(@, t)]]
         /\ IF \A v \in (u + 1)..MaxUploads : uploads[v].pc = "idle"
            THEN SetPdfText(t)
            ELSE UNCHANGED <<pdfText, questions, effectPending>>
         /\ lastCaller' = u

\* The loop test with text t and index i: the next page, or onUpload(text).
LoopOrDeliver(u, t, i) ==
    IF LoopContinues(i, Len(DocOf[uploads[u].file.doc].pages))
    THEN /\ uploads' = [uploads EXCEPT ![u] =
                [@ EXCEPT !.pc = "page", !.i = i, !.text = t]]
         /\ UNCHANGED <<pdfText, questions, effectPending, lastCaller>>
    ELSE /\ uploads' = [uploads EXCEPT ![u] =
                [@ EXCEPT !.pc = "done", !.i = i, !.text = t, !.calls = Append(@, t)]]
         /\ SetPdfText(t)
         /\ lastCaller' = u

\* getDocument settles: a rejection, or let text = "" and the loop's start.
GetDocumentSettled(u) ==
    /\ uploads[u].pc = "getDocument"
    /\ IF DocOf[uploads[u].file.doc].opens
       THEN LoopOrDeliver(u, <<>>, FirstPage)
       ELSE Reject(u)
    /\ UNCHANGED <<alerts, requests>>
    /\ UNCHANGED pipeVars

ReadPageSharedText(u) ==
    /\ uploads[u].pc = "page"
    /\ LET doc == DocOf[uploads[u].file.doc]
           i == uploads[u].i
       IN  IF GetPageOk(doc, i) /\ GetTextContentOk(doc, i)
           THEN LoopOrDeliver(u, uploads[1].text \o PageText(doc.pages[i].items), i + 1)
           ELSE Reject(u)
    /\ UNCHANGED <<alerts, requests>>
    /\ UNCHANGED pipeVars

\* One iteration of the loop: getPage(i), getTextContent(), text += pageText
\* + "\n", i++ and the loop test.
ReadPage(u) ==
    /\ uploads[u].pc = "page"
    /\ LET doc == DocOf[uploads[u].file.doc]
           i == uploads[u].i
       IN  IF GetPageOk(doc, i) /\ GetTextContentOk(doc, i)
           THEN LoopOrDeliver(u, uploads[u].text \o PageText(doc.pages[i].items), i + 1)
           ELSE Reject(u)
    /\ UNCHANGED <<alerts, requests>>
    /\ UNCHANGED pipeVars

RunEffectStale ==
    /\ effectPending
    /\ questions' = questions
    /\ effectPending' = FALSE
    /\ UNCHANGED <<uploads, pdfText, alerts, lastCaller, requests>>
    /\ UNCHANGED pipeVars

\* QuestionBox's effect: setQuestions(cleanAndGenerateQuestions(text))
RunEffect ==
    /\ effectPending
    /\ questions' = cleanAndGenerateQuestions(pdfText)
    /\ effectPending' = FALSE
    /\ UNCHANGED <<uploads, pdfText, alerts, lastCaller, requests>>
    /\ UNCHANGED pipeVars

PostUploadNoReturn(r, f) ==
    /\ Started < MaxUploads
    /\ requests[r].pc = "idle"
    /\ \A q \in 1..(r - 1) : requests[q].pc # "idle"
    /\ requests' = [requests EXCEPT ![r] =
           IF f = NoFile
           THEN [file |-> f, pc |-> "parsing", sent |-> 1, status |-> 400,
                 body |-> [error |-> "No file uploaded"]]
           ELSE [@ EXCEPT !.file = f, !.pc = "parsing"]]
    /\ UNCHANGED <<uploads, pdfText, questions, effectPending, alerts, lastCaller>>
    /\ UNCHANGED pipeVars

\* POST /upload up to its first await, or to the 400 response.
PostUpload(r, f) ==
    /\ Started < MaxUploads
    /\ requests[r].pc = "idle"
    /\ \A q \in 1..(r - 1) : requests[q].pc # "idle"
    /\ requests' = [requests EXCEPT ![r] =
           IF f = NoFile
           THEN [file |-> f, pc |-> "responded", sent |-> 1, status |-> 400,
                 body |-> [error |-> "No file uploaded"]]
           ELSE [@ EXCEPT !.file = f, !.pc = "parsing"]]
    /\ UNCHANGED <<uploads, pdfText, questions, effectPending, alerts, lastCaller>>
    /\ UNCHANGED pipeVars

\* pdfParse settles: res.json({text}) with the default status, or the catch.
PdfParseSettled(r) ==
    /\ requests[r].pc = "parsing"
    /\ LET doc == DocOf[requests[r].file.doc]
       IN  requests' = [requests EXCEPT ![r] =
               IF PdfParseOk(doc)
               THEN [@ EXCEPT !.pc = "responded", !.sent = @ + 1, !.status = 200,
                              !.body = [text |-> PdfParseText(doc)]]
               ELSE [@ EXCEPT !.pc = "responded", !.sent = @ + 1, !.status = 500,
                              !.body = [error |-> "Failed to parse PDF"]]]
    /\ UNCHANGED <<uploads, pdfText, questions, effectPending, alerts, lastCaller>>
    /\ UNCHANGED pipeVars

Init ==
    /\ AppInit
    /\ text = <<>>
    /\ stage = "off"
    /\ cleanedText = <<>>
    /\ splitResult = <<>>
    /\ sentences = <<>>
    /\ generatedQuestions = <<>>
    /\ pageTexts = <<>>

Next ==
    \/ \E u \in 1..MaxUploads, f \in Files \cup {NoFile} : HandleFileChange(u, f)
    \/ \E u \in 1..MaxUploads : ReaderOnload(u)
    \/ \E u \in 1..MaxUploads : GetDocumentSettled(u)
    \/ \E u \in 1..MaxUploads : ReadPage(u)
    \/ RunEffect
    \/ \E r \in 1..MaxUploads, f \in Files \cup {NoFile} : PostUpload(r, f)
    \/ \E r \in 1..MaxUploads : PdfParseSettled(r)

Spec == Init /\ [][Next]_vars

\* The step of RunEffect as seen on effectPending and pdfText: the pending
\* effect ends and the text stays.  (A render for a new text leaves an
\* effect pending or changes the text.)
EffectRuns == effectPending /\ effectPending' = FALSE /\ pdfText' = pdfText

\* React runs a scheduled effect: it is not postponed forever.
FairSpec == Spec /\ WF_<<effectPending, pdfText>>(EffectRuns)

----------------------------------------------------------------------------
(* PipeSpec: one call of cleanAndGenerateQuestions *)

PipeInit ==
    /\ text \in Texts
    /\ stage = "clean"
    /\ cleanedText = <<>>
    /\ splitResult = <<>>
    /\ sentences = <<>>
    /\ generatedQuestions = <<>>
    /\ pageTexts = <<>>
    /\ AppInit

DoClean ==
    /\ stage = "clean"
    /\ cleanedText' = Clean(text)
    /\ stage' = "split"
    /\ UNCHANGED <<text, splitResult, sentences, generatedQuestions, pageTexts>>
    /\ UNCHANGED appVars

DoSplit ==
    /\ stage = "split"
    /\ splitResult' = Split(cleanedText)
    /\ stage' = "filter"
    /\ UNCHANGED <<text, cleanedText, sentences, generatedQuestions, pageTexts>>
    /\ UNCHANGED appVars

DoFilter ==
    /\ stage = "filter"
    /\ sentences' = Filter(splitResult)
    /\ stage' = "map"
    /\ UNCHANGED <<text, cleanedText, splitResult, generatedQuestions, pageTexts>>
    /\ UNCHANGED appVars

DoMap ==
    /\ stage = "map"
    /\ generatedQuestions' = MapQuestions(Slice(sentences))
    /\ stage' = "returned"
    /\ UNCHANGED <<text, cleanedText, splitResult, sentences, pageTexts>>
    /\ UNCHANGED appVars

PipeNext == DoClean \/ DoSplit \/ DoFilter \/ DoMap

PipeSpec == PipeInit /\ [][PipeNext]_vars

----------------------------------------------------------------------------
(* PageSpec: the extractor's loop over given page texts, then one call of *)
(* cleanAndGenerateQuestions on its result                                 *)

\* Page texts: the empty one, every single character, and two-character ones
\* with a terminator or a space at either end.
PageTexts ==
    {<<>>} \cup {<<c>> : c \in Alphabet}
           \cup {<<"a", ".">>, <<"a", " ">>, <<" ", "a">>}

RECURSIVE PageSeqs(_)
PageSeqs(n) ==
    IF n = 0 THEN {<<>>}
    ELSE {Append(ps, p) : ps \in PageSeqs(n - 1), p \in PageTexts}

PageInit ==
    /\ pageTexts \in UNION {PageSeqs(n) : n \in 0..MaxPages}
    /\ text = <<>>
    /\ stage = "extract"
    /\ cleanedText = <<>>
    /\ splitResult = <<>>
    /\ sentences = <<>>
    /\ generatedQuestions = <<>>
    /\ AppInit

\* let text = ""; for each page in order, text += pageText + "\n"
DoExtract ==
    /\ stage = "extract"
    /\ text' = Concat([i \in 1..Len(pageTexts) |-> PageText(<<pageTexts[i]>>)])
    /\ stage' = "clean"
    /\ UNCHANGED <<cleanedText, splitResult, sentences, generatedQuestions, pageTexts>>
    /\ UNCHANGED appVars

PageNext == DoExtract \/ DoClean \/ DoSplit \/ DoFilter \/ DoMap

PageSpec == PageInit /\ [][PageNext]_vars

----------------------------------------------------------------------------
(* Properties of cleanAndGenerateQuestions, checked under PipeSpec *)

Last(s) == s[Len(s)]

Terminators == {".", "?", "!"}

ExpectedQ1 == <<
    "Q", "1", ":", " ", "W", "h", "a", "t", " ", "d", "o", "e", "s", " ",
    "t", "h", "i", "s", " ", "m", "e", "a", "n", "?", " ", "→", " ", "\"",
    "T", "h", "e", " ", "m", "i", "t", "o", "c", "h", "o", "n", "d", "r",
    "i", "a", " ", "i", "s", " ", "t", "h", "e", " ", "p", "o", "w", "e",
    "r", "h", "o", "u", "s", "e", " ", "o", "f", " ", "t", "h", "e", " ",
    "c", "e", "l", "l", "?", "\"" >>

ExpectedQ2 == <<
    "Q", "2", ":", " ", "W", "h", "a", "t", " ", "d", "o", "e", "s", " ",
    "t", "h", "i", "s", " ", "m", "e", "a", "n", "?", " ", "→", " ", "\"",
    "I", "t", " ", "p", "e", "r", "f", "o", "r", "m", "s", " ", "c", "e",
    "l", "l", "u", "l", "a", "r", " ", "r", "e", "s", "p", "i", "r", "a",
    "t", "i", "o", "n", " ", "c", "o", "n", "s", "t", "a", "n", "t", "l",
    "y", "?", "\"" >>

\* C1: the end-to-end example text returns exactly the two prompts of the
\* specification, the second one quoting "It performs cellular respiration
\* constantly" with no period before the appended question mark.
C1_EndToEndExample ==
    (text = Mitochondria /\ stage = "returned")
        => generatedQuestions = <<ExpectedQ1, ExpectedQ2>>

\* C2: no piece returned by the split ends with ".", "?" or "!", the last
\* piece of the text included.
C2_NoTerminalPunctuation ==
    stage \in {"filter", "map", "returned"}
        => \A k \in 1..Len(splitResult) :
               splitResult[k] = <<>> \/ Last(splitResult[k]) \notin Terminators

PromptPhrase == <<
    ":", " ", "W", "h", "a", "t", " ", "d", "o", "e", "s", " ", "t", "h",
    "i", "s", " ", "m", "e", "a", "n", "?", " ", "→", " ", "\"" >>

\* b is c without its leading and trailing whitespace.
IsTrimOf(b, c) ==
    /\ b = <<>> \/ (b[1] \notin WhiteSpace /\ Last(b) \notin WhiteSpace)
    /\ \E i \in 0..(Len(c) - Len(b)) :
           /\ SubSeq(c, i + 1, i + Len(b)) = b
           /\ \A j \in 1..Len(c) :
                  (j <= i \/ j > i + Len(b)) => c[j] \in WhiteSpace

\* The text a prompt quotes: what stands between the phrase and the closing
\* question mark and quote.
Quoted(p) == SubSeq(p, Len(PromptPhrase) + 3, Len(p) - 2)

\* C3: the prompt of the candidate at 0-based index i is "Q", the decimal of
\* i + 1, the fixed phrase, the trimmed candidate, a question mark and a
\* closing quote, whatever the candidate's last character is.
C3_PromptShape ==
    stage = "returned"
        => \A k \in 1..Len(generatedQuestions) :
               LET p == generatedQuestions[k]
               IN  /\ Len(p) >= Len(PromptPhrase) + 4
                   /\ p[1] = "Q"
                   /\ p[2] = DigitChars[k + 1]
                   /\ SubSeq(p, 3, Len(PromptPhrase) + 2) = PromptPhrase
                   /\ IsTrimOf(Quoted(p), sentences[k])
                   /\ SubSeq(p, Len(p) - 1, Len(p)) = <<"?", "\"">>

\* A returned list with a candidate that ends in a space and one that ends
\* in a period.
C3_Witness ==
    /\ stage = "returned"
    /\ \E k \in 1..Len(generatedQuestions) : Last(sentences[k]) = " "
    /\ \E k \in 1..Len(generatedQuestions) : Last(sentences[k]) = "."

\* The indices of the split pieces that pass the filter, and the k-th of them.
Passing == {i \in 1..Len(splitResult) : Len(splitResult[i]) > 30}

KthPassing(k) ==
    CHOOSE i \in Passing : Cardinality({j \in Passing : j <= i}) = k

\* C4: the prompt list has min(5, number of passing candidates) elements, and
\* the k-th prompt carries ordinal k and quotes the k-th passing candidate.
C4_Cap ==
    stage = "returned"
        => /\ Len(generatedQuestions) = Min(5, Cardinality(Passing))
           /\ \A k \in 1..Len(generatedQuestions) :
                  /\ SubSeq(generatedQuestions[k], 1, 2) = <<"Q", DigitChars[k + 1]>>
                  /\ IsTrimOf(Quoted(generatedQuestions[k]),
                              splitResult[KthPassing(k)])

\* More than five candidates pass and five prompts are returned.
C4_Witness ==
    /\ stage = "returned"
    /\ Cardinality(Passing) > 5
    /\ Len(generatedQuestions) = 5

\* C5: a candidate is retained if and only if its length, trailing space
\* included, is greater than 30.
C5_FilterBoundary ==
    stage \in {"map", "returned"}
        => /\ Len(sentences) = Cardinality(Passing)
           /\ \A k \in 1..Len(sentences) : sentences[k] = splitResult[KthPassing(k)]
           /\ \A i \in 1..Len(splitResult) :
                  /\ Len(splitResult[i]) = 30
                         => \A k \in 1..Len(sentences) : sentences[k] # splitResult[i]
                  /\ Len(splitResult[i]) = 31
                         => \E k \in 1..Len(sentences) : sentences[k] = splitResult[i]

\* The filter met a piece of length 30, which it dropped, and a piece of
\* length 31 ending in a space, which it kept.
C5_Witness ==
    /\ stage = "map"
    /\ \E i \in 1..Len(splitResult) :
           /\ Len(splitResult[i]) = 30
           /\ \A k \in 1..Len(sentences) : sentences[k] # splitResult[i]
    /\ \E k \in 1..Len(sentences) :
           Len(sentences[k]) = 31 /\ Last(sentences[k]) = " "

NormalizedAlphabet == Lower \cup Upper \cup Digits \cup {".", ",", "!", "?", " "}

\* C6: the cleaned text has no newline, no two consecutive spaces, no leading
\* or trailing space, and only letters, digits, ". , ! ?" and space.
C6_NormalizedForm ==
    stage # "clean"
        => /\ \A i \in 1..Len(cleanedText) :
                  /\ cleanedText[i] # "\n"
                  /\ cleanedText[i] \in NormalizedAlphabet
                  /\ i < Len(cleanedText)
                         => ~(cleanedText[i] = " " /\ cleanedText[i + 1] = " ")
           /\ cleanedText # <<>>
                  => cleanedText[1] # " " /\ Last(cleanedText) # " "

\* A text with a disallowed character, a newline and a space at an edge was
\* cleaned to something non-empty.
C6_Witness ==
    /\ stage = "split"
    /\ cleanedText # <<>>
    /\ \E i \in 1..Len(text) : text[i] = "#"
    /\ \E i \in 1..Len(text) : text[i] = "\n"
    /\ text[1] = " "

\* C7: cleaning a cleaned text changes nothing.
C7_Idempotent == stage # "clean" => Clean(cleanedText) = cleanedText

\* The first cleaning did change the text and left something.
C7_Witness ==
    stage = "split" /\ cleanedText # text /\ Len(cleanedText) > 1

----------------------------------------------------------------------------
(* Properties of the application, checked under Spec *)

\* The document decodes in full: it opens and every page gives its text.
FullyDecodes(d) ==
    d.opens /\ \A i \in 1..Len(d.pages) : d.pages[i].loads /\ d.pages[i].content

\* The extractor's result for a document that decodes in full: every page's
\* items joined by spaces and followed by a newline, in page order.
DocumentText(d) ==
    Concat([i \in 1..Len(d.pages) |-> Join(d.pages[i].items, <<" ">>) \o <<"\n">>])

\* The texts of the documents that decode in full.
FullTexts == {DocumentText(DocOf[n]) : n \in {k \in DocNames : FullyDecodes(DocOf[k])}}

\* Their prompt lists.
FullTextPrompts == {cleanAndGenerateQuestions(t) : t \in FullTexts}

\* C8: once a run has delivered its text and the interface has settled, an
\* empty prompt list is displayed as the message "No valid content found to
\* generate questions.", also when the delivered text is the empty string.
C8_EmptyStateMessage ==
    (lastCaller # 0 /\ ~effectPending /\ cleanAndGenerateQuestions(pdfText) = <<>>)
        => QuestionBoxView.p = NoContentMessage

\* C9: a run on a document that opens with zero pages ends successfully,
\* having called onUpload once with the empty string, whose prompt list is
\* empty; no prompt is displayed for it.
C9_ZeroPages ==
    \A u \in 1..MaxUploads :
        (/\ uploads[u].file.type = "application/pdf"
         /\ DocOf[uploads[u].file.doc].opens
         /\ Len(DocOf[uploads[u].file.doc].pages) = 0
         /\ uploads[u].pc \notin {"idle", "reading", "getDocument"})
            => /\ uploads[u].pc = "done"
               /\ uploads[u].calls = << <<>> >>
               /\ cleanAndGenerateQuestions(uploads[u].calls[1]) = <<>>
               /\ lastCaller = u => pdfText = <<>> /\ QuestionBoxView.li = <<>>

\* A zero-page document was decoded after a document with prompts had been
\* displayed.
C9_Witness ==
    \E u \in 1..MaxUploads :
        /\ uploads[u].file.doc = "zero"
        /\ uploads[u].pc = "done"
        /\ lastCaller = u
        /\ \E v \in 1..MaxUploads : uploads[v].file.doc = "one" /\ uploads[v].pc = "done"

\* C10: a run whose document fails to open or to give one of its pages ends
\* rejected without a call of onUpload; every call of onUpload carries the
\* full text of a document that decodes in full, so pdfText and the displayed
\* prompts never come from a partial text; the endpoint answers such a
\* document with status 500 and no text.
C10_AllOrNothing ==
    /\ \A u \in 1..MaxUploads :
           LET d == DocOf[uploads[u].file.doc]
           IN  /\ uploads[u].calls # <<>>
                      => FullyDecodes(d) /\ uploads[u].calls = <<DocumentText(d)>>
               /\ (~FullyDecodes(d) /\ uploads[u].pc \in {"done", "rejected"})
                      => uploads[u].pc = "rejected" /\ uploads[u].calls = <<>>
    /\ pdfText \in FullTexts
    /\ QuestionBoxView.li \in {<<>>} \cup FullTextPrompts
    /\ \A r \in 1..MaxUploads :
           (/\ requests[r].pc = "responded"
            /\ requests[r].file # NoFile
            /\ ~FullyDecodes(DocOf[requests[r].file.doc]))
               => /\ requests[r].status = 500
                  /\ DOMAIN requests[r].body = {"error"}

\* A run was rejected on its second page after reading the first, and the
\* endpoint has answered a document that does not open.
C10_Witness ==
    /\ \E u \in 1..MaxUploads :
           /\ uploads[u].file.doc = "torn"
           /\ uploads[u].pc = "rejected"
           /\ uploads[u].text # <<>>
    /\ \E r \in 1..MaxUploads :
           requests[r].file.doc = "bad" /\ requests[r].status = 500

\* What the user of the application sees: QuestionBox's output and the alert
\* dialogs shown so far.
Screen == [box |-> QuestionBoxView, alerts |-> alerts]

\* C11: a failed decode is observably an error: the step in which a run's
\* decode fails changes what the user sees (an error message), so that it
\* cannot be taken for a run that succeeded and found nothing; the endpoint
\* answers 500 with an error exactly for the documents that fail to decode.
C11_FailureIsDistinct ==
    [][/\ \A u \in 1..MaxUploads :
              (uploads[u].pc # "rejected" /\ uploads'[u].pc = "rejected")
                  => Screen' # Screen
       /\ \A r \in 1..MaxUploads :
              (/\ requests[r].pc # "responded"
               /\ requests'[r].pc = "responded"
               /\ requests'[r].file # NoFile)
                  => ((requests'[r].status = 500 /\ DOMAIN requests'[r].body = {"error"})
                         <=> ~FullyDecodes(DocOf[requests'[r].file.doc]))]_vars

\* C12: a request has no response while it is being parsed and exactly one
\* once handled: 400 with an error string when no file is present, 500 with
\* an error string when the file fails to decode, 200 with the text when it
\* decodes; a response holds either text or error, never both.
C12_OneResponse ==
    \A r \in 1..MaxUploads :
        LET q == requests[r]
        IN  /\ q.pc \in {"idle", "parsing"} => q.sent = 0
            /\ q.pc = "responded"
                   => /\ q.sent = 1
                      /\ IF q.file = NoFile
                         THEN q.status = 400 /\ q.body = [error |-> "No file uploaded"]
                         ELSE IF FullyDecodes(DocOf[q.file.doc])
                              THEN q.status = 200 /\ DOMAIN q.body = {"text"}
                              ELSE q.status = 500
                                       /\ q.body = [error |-> "Failed to parse PDF"]

\* A request without a file and a request with a decodable file have both
\* been answered.
C12_Witness ==
    /\ \E r \in 1..MaxUploads : requests[r].pc = "responded" /\ requests[r].status = 400
    /\ \E r \in 1..MaxUploads : requests[r].pc = "responded" /\ requests[r].status = 200

\* C13: in the file picker and in the endpoint alike, an input that is absent
\* or whose media type is not PDF is rejected before any decoding: its run
\* never reads or parses it and never delivers a text.
C13_MediaTypeGate ==
    /\ \A u \in 1..MaxUploads :
           uploads[u].file.type # "application/pdf"
               => uploads[u].pc \in {"idle", "alerted"} /\ uploads[u].calls = <<>>
    /\ \A r \in 1..MaxUploads :
           (requests[r].pc # "idle" /\ requests[r].file.type # "application/pdf")
               => /\ requests[r].pc = "responded"
                  /\ requests[r].status = 400
                  /\ DOMAIN requests[r].body = {"error"}

\* The text of the first n pages of a document.
PagesText(d, n) ==
    Concat([i \in 1..n |-> Join(d.pages[i].items, <<" ">>) \o <<"\n">>])

\* C14: the delivered text of a document of n pages is, for i = 1..n in
\* order, the page's items joined by single spaces and followed by one
\* newline; a page without items contributes just the newline; while page i
\* is awaited the text holds pages 1..i-1.
C14_ExtractorOutput ==
    \A u \in 1..MaxUploads :
        LET d == DocOf[uploads[u].file.doc]
        IN  /\ uploads[u].pc = "done"
                   => /\ uploads[u].i = Len(d.pages) + 1
                      /\ uploads[u].calls = <<PagesText(d, Len(d.pages))>>
            /\ uploads[u].pc = "page"
                   => /\ uploads[u].i \in 1..Len(d.pages)
                      /\ uploads[u].text = PagesText(d, uploads[u].i - 1)

\* A two-page document with several items on a page and a document whose
\* only page has no items were both delivered.
C14_Witness ==
    /\ \E u \in 1..MaxUploads : uploads[u].file.doc = "two" /\ uploads[u].pc = "done"
    /\ \E u \in 1..MaxUploads :
           /\ uploads[u].file.doc = "blank"
           /\ uploads[u].calls = << <<"\n">> >>

\* C15: the text delivered for a one-page document is the page's text and the
\* single newline that follows it, nothing more, and it is what App holds
\* after that call.
C15_SinglePage ==
    \A u \in 1..MaxUploads :
        LET d == DocOf[uploads[u].file.doc]
        IN  (uploads[u].pc = "done" /\ Len(d.pages) = 1)
                => /\ Len(uploads[u].calls) = 1
                   /\ LET t == uploads[u].calls[1]
                          page == Join(d.pages[1].items, <<" ">>)
                      IN  /\ Len(t) = Len(page) + 1
                          /\ SubSeq(t, 1, Len(page)) = page
                          /\ t[Len(t)] = "\n"
                          /\ lastCaller = u => pdfText = t

\* A one-page document with text was delivered and is the text App holds.
C15_Witness ==
    \E u \in 1..MaxUploads :
        /\ uploads[u].file.doc = "one"
        /\ uploads[u].pc = "done"
        /\ lastCaller = u

Segmented == stage \in {"filter", "map", "returned"}

\* A terminator followed by a space stands at position q of s.
TerminatorSpaceAt(s, q) ==
    q + 1 <= Len(s) /\ s[q] \in Terminators /\ s[q + 1] = " "

NoDelimiterIn(s) == \A q \in 1..Len(s) : ~TerminatorSpaceAt(s, q)

\* C16 as stated: a text without delimiter gives a one-element sequence equal
\* to the text when it is non-empty, and the empty sequence when it is empty.
C16_EdgeCases ==
    (Segmented /\ NoDelimiterIn(cleanedText))
        => IF cleanedText = <<>>
           THEN splitResult = <<>>
           ELSE splitResult = <<cleanedText>>

\* C16, amended: a text without delimiter gives a one-element sequence equal
\* to the text, also when the text is empty: the one element is then the
\* empty string.
C16_EdgeCasesAmended ==
    (Segmented /\ NoDelimiterIn(cleanedText))
        => /\ Len(splitResult) = 1
           /\ splitResult[1] = cleanedText

\* The empty normalized text has been segmented.
C16_Witness ==
    /\ stage = "filter"
    /\ cleanedText = <<>>
    /\ Len(splitResult) = 1

\* C18: no element returned by the segmenter contains ". ", "? " or "! ", and
\* each split point consumed exactly two characters of the text.
C18_NoDelimiterInside ==
    Segmented
        => /\ \A i \in 1..Len(splitResult) : NoDelimiterIn(splitResult[i])
           /\ Len(Concat(splitResult)) + 2 * (Len(splitResult) - 1) = Len(cleanedText)

\* A text holding "? " and "! " has been segmented in three pieces or more.
C18_Witness ==
    /\ stage = "filter"
    /\ Len(splitResult) >= 3
    /\ \E q \in 1..Len(cleanedText) :
           cleanedText[q] = "?" /\ TerminatorSpaceAt(cleanedText, q)
    /\ \E q \in 1..Len(cleanedText) :
           cleanedText[q] = "!" /\ TerminatorSpaceAt(cleanedText, q)

\* The positions of cleanedText where the i-th piece starts and ends, each
\* earlier piece being followed by a two-character delimiter.
PieceStart(i) == Len(Concat(SubSeq(splitResult, 1, i - 1))) + 2 * (i - 1) + 1

PieceEnd(i) == PieceStart(i) + Len(splitResult[i]) - 1

\* "?! " stands at position q of s.
CompoundAt(s, q) ==
    q + 2 <= Len(s) /\ s[q] = "?" /\ s[q + 1] = "!" /\ s[q + 2] = " "

\* C19 as stated: where the text holds "?! " the segmenter does not split, so
\* that the three characters lie inside one candidate.
C19_CompoundKept ==
    Segmented
        => \A q \in 1..Len(cleanedText) :
               CompoundAt(cleanedText, q)
                   => \E i \in 1..Len(splitResult) :
                          PieceStart(i) <= q /\ q + 2 <= PieceEnd(i)

\* C19, amended: where the text holds "?! " the segmenter splits at the "! ":
\* one candidate ends with the "?" and the next starts after the space.
C19_CompoundSplits ==
    Segmented
        => \A q \in 1..Len(cleanedText) :
               CompoundAt(cleanedText, q)
                   => \E i \in 1..(Len(splitResult) - 1) :
                          /\ PieceEnd(i) = q
                          /\ Last(splitResult[i]) = "?"
                          /\ PieceStart(i + 1) = q + 3

\* A text holding "?! " before further text has been segmented.
C19_Witness ==
    /\ stage = "filter"
    /\ \E q \in 1..Len(cleanedText) : CompoundAt(cleanedText, q) /\ q + 2 < Len(cleanedText)

\* The indices of the segmenter's elements longer than the threshold, in
\* increasing order.
PassingIndices ==
    LET IsLong(i) == Len(splitResult[i]) > Threshold
    IN  SelectSeq([i \in 1..Len(splitResult) |-> i], IsLong)

\* C20: the filtered sequence is the subsequence of the segmenter's elements
\* of length > 30 in their order, each text as many times as it occurs among
\* them; equal candidates both survive and both become prompts when within
\* the first five.
C20_NoDeduplication ==
    stage \in {"map", "returned"}
        => /\ Len(sentences) = Len(PassingIndices)
           /\ \A k \in 1..Len(sentences) : sentences[k] = splitResult[PassingIndices[k]]
           /\ \A i \in 1..Len(splitResult) :
                  Len(splitResult[i]) > Threshold
                      => Cardinality({k \in 1..Len(sentences) : sentences[k] = splitResult[i]})
                             = Cardinality({j \in 1..Len(splitResult) :
                                               splitResult[j] = splitResult[i]})
           /\ stage = "returned"
                  => \A k \in 1..Min(SliceEnd, Len(sentences)) :
                         generatedQuestions[k] = Question(sentences[k], k - 1)

\* Two candidates with identical text survived and both became prompts.
C20_Witness ==
    /\ stage = "returned"
    /\ \E k, l \in 1..Len(generatedQuestions) :
           k < l /\ sentences[k] = sentences[l]

(* Properties of extraction followed by normalization, checked under *)
(* PageSpec                                                           *)

\* The page texts joined by single spaces.
JoinedPages == Join(pageTexts, <<" ">>)

\* A page text that normalization leaves as it is, and that is not empty.
IsCleanPage(p) == p # <<>> /\ Clean(p) = p

Stepped(u) == uploads'[u] # uploads[u]

\* The document upload u decodes.
DocOfUpload(u) == DocOf[uploads[u].file.doc]

\* C22: an upload calls onUpload at most once, and this when the loop has
\* passed every page 1..numPages, one page per step in increasing order,
\* with the text of the whole document; a step of an upload that has not
\* called onUpload changes neither pdfText nor the state of QuestionBox.
C22_StageOrdering ==
    [][\A u \in 1..MaxUploads :
           /\ Len(uploads'[u].calls) <= 1
           /\ uploads'[u].calls # uploads[u].calls
                  => /\ uploads'[u].pc = "done"
                     /\ uploads'[u].i = Len(DocOf[uploads'[u].file.doc].pages) + 1
                     /\ uploads'[u].calls = <<DocumentText(DocOf[uploads'[u].file.doc])>>
                     /\ pdfText' = uploads'[u].calls[1]
           /\ (uploads[u].pc = "page" /\ Stepped(u) /\ uploads'[u].pc # "rejected")
                  => uploads'[u].i = uploads[u].i + 1
           /\ (Stepped(u) /\ uploads'[u].calls = <<>>)
                  => /\ pdfText' = pdfText
                     /\ questions' = questions
                     /\ effectPending' = effectPending]_vars

\* A two-page document was read to its end and delivered, and a run that
\* failed on its second page has ended.
C22_Witness ==
    /\ \E u \in 1..MaxUploads :
           /\ uploads[u].file.doc = "two"
           /\ uploads[u].pc = "done"
           /\ uploads[u].i = 3
           /\ pdfText = uploads[u].text
    /\ \E v \in 1..MaxUploads :
           uploads[v].file.doc = "torn" /\ uploads[v].pc = "rejected"

\* s is the beginning of t.
IsPrefix(s, t) == Len(s) <= Len(t) /\ SubSeq(t, 1, Len(s)) = s

\* C23: whatever the interleaving of the uploads in flight, the text a run
\* accumulates is the beginning of its own document's text, and every text
\* passed to onUpload is the text of that one document, each page once and
\* in order.
C23_Isolation ==
    \A u \in 1..MaxUploads :
        /\ IsPrefix(uploads[u].text, DocumentText(DocOfUpload(u)))
        /\ \A k \in 1..Len(uploads[u].calls) :
               uploads[u].calls[k] = DocumentText(DocOfUpload(u))

\* While the first upload waits for its second page, with text read already,
\* the second upload has delivered the text of another document.
C23_Witness ==
    /\ uploads[1].pc = "page"
    /\ uploads[1].i = 2
    /\ uploads[1].text # <<>>
    /\ uploads[2].pc = "done"
    /\ uploads[2].calls # <<>>
    /\ uploads[2].file.doc # uploads[1].file.doc
    /\ uploads[2].text # <<>>

\* The upload has ended: delivered, failed or refused.
Finished(u) == uploads[u].pc \in {"done", "rejected", "alerted"}

\* C24: pdfText is the text of the upload whose extraction completed last,
\* in particular once every upload has finished, whichever file was
\* selected last.
C24_CompletionOrder ==
    lastCaller # 0
        => /\ uploads[lastCaller].pc = "done"
           /\ pdfText = DocumentText(DocOfUpload(lastCaller))

\* Both uploads have finished, the one selected first completed last, and
\* pdfText is its text, not the text of the file selected last.
C24_Witness ==
    /\ \A u \in 1..MaxUploads : Finished(u)
    /\ uploads[2].pc = "done"
    /\ lastCaller = 1
    /\ pdfText # DocumentText(DocOfUpload(2))

\* C25: the step in which an upload fails to decode or is refused for its
\* media type leaves pdfText and what QuestionBox displays as they were, and
\* that upload has not called onUpload.
C25_FailureLeavesUnchanged ==
    [][\A u \in 1..MaxUploads :
           (uploads'[u].pc \in {"rejected", "alerted"} /\ Stepped(u))
               => /\ pdfText' = pdfText
                  /\ QuestionBoxView' = QuestionBoxView
                  /\ uploads'[u].calls = <<>>]_vars

\* One upload has failed and one was refused while the prompts of a
\* delivered document are displayed.
C25_Witness ==
    /\ lastCaller # 0
    /\ QuestionBoxView.li # <<>>
    /\ \E u \in 1..MaxUploads : uploads[u].pc \in {"rejected", "alerted"}

\* C26: when no effect is pending the displayed prompt list is the pipeline's
\* result for the current text; a pending effect runs; so the display ends
\* up equal to that result and stays so.
C26_Converges ==
    /\ [](~effectPending => QuestionBoxView.li = cleanAndGenerateQuestions(pdfText))
    /\ (effectPending ~> ~effectPending)
    /\ <>[](QuestionBoxView.li = cleanAndGenerateQuestions(pdfText))

\* The text changed twice and the prompts of the second text are displayed.
C26_Witness ==
    /\ \A u \in 1..MaxUploads : uploads[u].pc = "done"
    /\ uploads[1].text # uploads[2].text
    /\ uploads[1].text # <<>> /\ uploads[2].text # <<>>
    /\ ~effectPending
    /\ questions # <<>>
    /\ questions = cleanAndGenerateQuestions(pdfText)

\* C27: whenever QuestionBox displays the message "No valid content found
\* to generate questions.", the pipeline gives no prompt for its text.
C27_MessageOnlyWhenEmpty ==
    QuestionBoxView.p = NoContentMessage
        => cleanAndGenerateQuestions(pdfText) = <<>>

(* Further properties of cleanAndGenerateQuestions, checked under PipeSpec *)

\* s starts with a character that is no space and ends with one space at
\* most.
TightlySpaced(s) ==
    /\ s[1] # " "
    /\ Len(s) >= 2 => ~(s[Len(s) - 1] = " " /\ Last(s) = " ")

\* C28: every non-empty candidate starts with a non-space character and
\* ends with at most one space; so the sentence a prompt quotes has no space
\* at either end and at least 30 characters, and exactly 30 when its
\* candidate has 31 characters and ends with a space.
C28_QuotedLength ==
    /\ Segmented
           => \A i \in 1..Len(splitResult) :
                  splitResult[i] # <<>> => TightlySpaced(splitResult[i])
    /\ stage = "returned"
           => \A k \in 1..Len(generatedQuestions) :
                  LET q == Quoted(generatedQuestions[k])
                  IN  /\ Len(q) >= Threshold
                      /\ q[1] # " " /\ Last(q) # " "
                      /\ (Len(sentences[k]) = Threshold + 1 /\ Last(sentences[k]) = " ")
                             => Len(q) = Threshold

\* A prompt quotes a sentence of exactly 30 characters.
C28_Witness ==
    /\ stage = "returned"
    /\ \E k \in 1..Len(generatedQuestions) :
           Len(Quoted(generatedQuestions[k])) = Threshold

\* The normalizer without its newline-collapsing pass.
CleanTwoPass(s) == Trim(CollapseWhitespace(ReplaceDisallowed(s)))

\* C29: no newline is left after the whitespace pass, and the normalizer's
\* result is the result of the normalizer without the newline pass.
C29_ThirdPassRedundant ==
    stage \in {"split", "filter", "map", "returned"}
        => /\ LET collapsed == CollapseWhitespace(ReplaceDisallowed(text))
              IN  \A i \in 1..Len(collapsed) : collapsed[i] \notin NewLine
           /\ cleanedText = CleanTwoPass(text)

\* A text with a run of newlines between two letters has been normalized.
C29_Witness ==
    /\ stage = "split"
    /\ \E i \in 2..(Len(text) - 2) :
           /\ text[i - 1] = "a"
           /\ text[i] = "\n" /\ text[i + 1] = "\n"
           /\ text[i + 2] = "a"

====
